---------------------------- MODULE Spec2Model ----------------------------
(***************************************************************************)
(* Model of basepairmodels/cli/outliers.py: getPeakPositions (peak window  *)
(* extraction) and outliers_main (signal aggregation, quantile based       *)
(* outlier trimming, output).                                              *)
(*                                                                         *)
(* Conventions.                                                            *)
(*  - Data frames are sequences of records; python positions are 0-based   *)
(*    and are kept 0-based in quantile_idx, max_idx and the index column;  *)
(*    the element at python position i is seq[i + 1].                      *)
(*  - A peak record carries the columns chrom, st, e, name, summit; the    *)
(*    columns weight, strand, signal, p, q are pure payload that the code  *)
(*    treats exactly like name, so name stands for all of them.            *)
(*  - Real numbers (means, quantiles, scaled values) are exact rationals   *)
(*    <<numerator, denominator>> with a positive denominator, compared by  *)
(*    cross multiplication.  Floating point rounding is not modelled.      *)
(*  - args.quantile and args.quantile_value_scale_factor are read for the  *)
(*    first time at lines 173 and 181; the model draws them there.         *)
(*  - The list of peak files and the list of signal files are consumed one *)
(*    element per loop iteration; the model draws each element when the    *)
(*    loop reaches it.  The signal list holds at least one file.           *)
(***************************************************************************)
EXTENDS Integers, Sequences, FiniteSets, TLC

VARIABLES
    pc,             \* position in outliers_main / getPeakPositions
    chroms,         \* args.chroms: the required chromosomes
    chrom_sizes,    \* chrom_size_dict: chromosome name -> size
    flank,          \* args.sequence_len // 2
    sources_read,   \* number of task['loci']['source'] files consumed
    peaks_df,       \* the frame named peaks_df (callee's, then caller's)
    allPeaks,       \* the concatenated frame of getPeakPositions
    signal_files,   \* the opened bigWig handles, in order
    counts,         \* counts = peaks_df['avg_counts'].values (line 168)
    quantile,       \* args.quantile
    nth_quantile,   \* line 173
    quantile_idx,   \* line 177
    scale_factor,   \* args.quantile_value_scale_factor
    scaled_value,   \* line 181
    max_idx,        \* line 185
    output_bed,     \* the output file: written flag and rows
    error           \* the exception that ended the run, if any

vars == <<pc, chroms, chrom_sizes, flank, sources_read, peaks_df, allPeaks,
          signal_files, counts, quantile, nth_quantile, quantile_idx,
          scale_factor, scaled_value, max_idx, output_bed, error>>

---------------------------------------------------------------------------
(* Bounds of the model *)

MaxSources == 2
MaxRows == 2
MaxTracks == 2
MaxFlank == 2

---------------------------------------------------------------------------
(* Input universes *)

PeakRecords ==
    { [chrom |-> "chr1", st |-> 0, e |-> 2, name |-> "a", summit |-> 1],
      [chrom |-> "chr1", st |-> 2, e |-> 4, name |-> "b", summit |-> 1],
      [chrom |-> "chr1", st |-> 4, e |-> 6, name |-> "d", summit |-> 1],
      [chrom |-> "chrZ", st |-> 0, e |-> 2, name |-> "z", summit |-> 1] }

ChromSizeTables ==
    { [c \in {"chr1"} |-> 6],
      [c \in {"chr1", "chrZ"} |-> IF c = "chr1" THEN 6 ELSE 4] }

RequiredChroms == { {"chr1"}, {"chr1", "chrZ"} }

SeqsUpTo(S, n) == UNION { [1..k -> S] : k \in 0..n }

PeakFiles == SeqsUpTo(PeakRecords, MaxRows)

SignalSources == {"flat.bw", "ramp.bw", "missing.bw"}

Quantiles == { <<0 - 1, 4>>, <<0, 4>>, <<1, 4>>, <<2, 4>>, <<4, 4>>, <<5, 4>> }

ScaleFactors == { <<1, 2>>, <<1, 1>>, <<6, 5>>, <<2, 1>> }

---------------------------------------------------------------------------
(* Rational arithmetic *)

RatGt(a, b) == a[1] * b[2] > b[1] * a[2]

RatEq(a, b) == a[1] * b[2] = b[1] * a[2]

RatLe(a, b) == ~RatGt(a, b)

Abs(x) == IF x < 0 THEN 0 - x ELSE x

RatAbsDiff(a, b) == <<Abs(a[1] * b[2] - b[1] * a[2]), a[2] * b[2]>>

RatMul(a, b) == <<a[1] * b[1], a[2] * b[2]>>

---------------------------------------------------------------------------
(* getPeakPositions *)

NoError == [type |-> "none", arg |-> "none"]

\* string comparison of chromosome names, as sort_values orders them
ChromRank(c) == IF c = "chr1" THEN 1 ELSE 2

\* a chromosome filter that also drops chromosomes without a size entry
FilterChroms_DropUnknown(df, req) ==
    LET keep(r) == r.chrom \in req /\ r.chrom \in DOMAIN chrom_sizes
    IN SelectSeq(df, keep)

\* line 51: keep only the rows of required chromosomes
FilterChroms(df, req) ==
    LET keep(r) == r.chrom \in req IN SelectSeq(df, keep)

\* lines 54-62: columns pos, start, end
Window(r, fl) ==
    [chrom |-> r.chrom, st |-> r.st, e |-> r.e,
     start |-> (r.st + r.summit) - fl, end |-> (r.st + r.summit) + fl,
     name |-> r.name, summit |-> r.summit]

AddWindows(df, fl) == [i \in 1..Len(df) |-> Window(df[i], fl)]

\* line 65: drop rows whose left flank is below 0
FilterStart(df) ==
    LET keep(r) == r.start >= 0 IN SelectSeq(df, keep)

\* lines 68-69: the rows whose chromosome has no entry in chrom_size_dict
MissingLookups(df, sizes) ==
    LET bad(r) == r.chrom \notin DOMAIN sizes IN SelectSeq(df, bad)

\* a right flank filter that lets a window end one base past the chromosome
FilterEnd_OffByOne(df, sizes) ==
    LET keep(r) == r.end <= sizes[r.chrom] + 1 IN SelectSeq(df, keep)

\* lines 73-74: drop rows whose right flank is beyond the chromosome
FilterEnd(df, sizes) ==
    LET keep(r) == r.end <= sizes[r.chrom] IN SelectSeq(df, keep)

\* lines 77-78: ordering of sort_values(['chrom', 'end'])
RowLess(a, b) ==
    \/ ChromRank(a.chrom) < ChromRank(b.chrom)
    \/ ChromRank(a.chrom) = ChromRank(b.chrom) /\ a.end < b.end

\* insert r after every element that is not greater than it (stable)
RECURSIVE InsertSorted(_, _)
InsertSorted(r, s) ==
    IF s = <<>> THEN <<r>>
    ELSE IF RowLess(r, Head(s)) THEN <<r>> \o s
    ELSE <<Head(s)>> \o InsertSorted(r, Tail(s))

\* lines 77-78: the multi-column sort is a stable lexicographic sort
RECURSIVE SortByChromEnd(_)
SortByChromEnd(df) ==
    IF df = <<>> THEN <<>>
    ELSE InsertSorted(df[Len(df)], SortByChromEnd(SubSeq(df, 1, Len(df) - 1)))

SeqContains(s, r) == \E i \in 1..Len(s) : s[i] = r

\* line 90: drop_duplicates keeps the first occurrence of every row
RECURSIVE DropDuplicatesFrom(_, _)
DropDuplicatesFrom(kept, rest) ==
    IF rest = <<>> THEN kept
    ELSE IF SeqContains(kept, Head(rest))
         THEN DropDuplicatesFrom(kept, Tail(rest))
         ELSE DropDuplicatesFrom(Append(kept, Head(rest)), Tail(rest))

Reverse(s) == [i \in 1..Len(s) |-> s[Len(s) + 1 - i]]

\* drop_duplicates(keep='last')
DropDuplicates_KeepLast(df) == Reverse(DropDuplicatesFrom(<<>>, Reverse(df)))

DropDuplicates(df) == DropDuplicatesFrom(<<>>, df)

\* ignore_index=True / reset_index(drop=True): the index column is 0..n-1
WithIndex(df) ==
    [i \in 1..Len(df) |->
        [index |-> i - 1, chrom |-> df[i].chrom, st |-> df[i].st,
         e |-> df[i].e, start |-> df[i].start, end |-> df[i].end,
         name |-> df[i].name, summit |-> df[i].summit]]

---------------------------------------------------------------------------
(* Signal tracks: the bigWig files behind task['signal']['source'] *)

\* line 139: os.path.exists(signal_file)
PathExists(f) == f # "missing.bw"

\* the chromosomes a bigWig file has data for
BigWigChroms(f) == IF f = "flat.bw" THEN {"chr1", "chrZ"} ELSE {"chr1"}

\* bases without coverage read as NaN
BaseIsNaN(f, chrom, pos) == f = "ramp.bw" /\ pos = 5

BaseValue(f, chrom, pos) == IF f = "flat.bw" THEN 1 ELSE pos - 2

\* line 158: values() raises RuntimeError on an unknown chromosome or an
\* interval that is empty
ValuesValid(f, chrom, start, end) ==
    chrom \in BigWigChroms(f) /\ start < end

\* line 158: np.nan_to_num turns NaN into 0
NanToNum(f, chrom, pos) ==
    IF BaseIsNaN(f, chrom, pos) THEN 0 ELSE BaseValue(f, chrom, pos)

\* line 158: np.sum(np.nan_to_num(values(chrom, start, end)))
RECURSIVE WindowSum(_, _, _, _)
WindowSum(f, chrom, start, end) ==
    IF start >= end THEN 0
    ELSE NanToNum(f, chrom, start) + WindowSum(f, chrom, start + 1, end)

RECURSIVE SeqSum(_)
SeqSum(s) == IF s = <<>> THEN 0 ELSE Head(s) + SeqSum(Tail(s))

\* line 164: mean(axis=1) over the signal columns
Mean(s) == <<SeqSum(s), Len(s)>>

\* lines 151-164: the per track counts and their mean for one row
Scored(r, files) ==
    LET c == [t \in 1..Len(files) |-> WindowSum(files[t], r.chrom, r.start, r.end)]
    IN [index |-> r.index, chrom |-> r.chrom, st |-> r.st, e |-> r.e,
        start |-> r.start, end |-> r.end, name |-> r.name,
        summit |-> r.summit, counts |-> c, avg_counts |-> Mean(c)]

AllQueriesValid(df, files) ==
    \A i \in 1..Len(df) : \A t \in 1..Len(files) :
        ValuesValid(files[t], df[i].chrom, df[i].start, df[i].end)

---------------------------------------------------------------------------
(* Outlier trimming *)

IndexPermutations(n) ==
    { p \in [1..n -> 1..n] : \A i, j \in 1..n : i # j => p[i] # p[j] }

Ascending(df) ==
    \A i \in 1..(Len(df) - 1) : RatLe(df[i].avg_counts, df[i + 1].avg_counts)

\* line 166: sort_values(by=['avg_counts']) uses the default kind, quicksort,
\* which promises an ascending result and no order among equal keys
SortedFrames(df) ==
    { s \in { [i \in 1..Len(df) |-> df[p[i]]] : p \in IndexPermutations(Len(df)) } :
        Ascending(s) }

\* a range check without the upper bound
QuantileValid_NoUpper(q) == 0 <= q[1]

\* line 173: np.quantile rejects q outside [0, 1]
QuantileValid(q) == 0 <= q[1] /\ q[1] <= q[2]

\* line 173: np.quantile with linear interpolation on a sorted array
NpQuantile(a, q) ==
    LET n == Len(a)
        virtual == q[1] * (n - 1)
        lo == virtual \div q[2]
        rem == virtual % q[2]
        hi == IF lo + 1 > n - 1 THEN n - 1 ELSE lo + 1
        alo == a[lo + 1]
        ahi == a[hi + 1]
        diff == <<ahi[1] * alo[2] - alo[1] * ahi[2], ahi[2] * alo[2]>>
        step == RatMul(diff, <<rem, q[2]>>)
    IN <<alo[1] * step[2] + step[1] * alo[2], alo[2] * step[2]>>

\* line 177: argmin scans left to right and keeps the first minimum
RECURSIVE ArgMinFrom(_, _, _)
ArgMinFrom(d, best, i) ==
    IF i > Len(d) THEN best - 1
    ELSE IF RatGt(d[best], d[i]) THEN ArgMinFrom(d, i, i + 1)
    ELSE ArgMinFrom(d, best, i + 1)

ArgMin(d) == ArgMinFrom(d, 1, 2)

\* an argmin that keeps the last minimum
QuantileIdx_LastMin(a, nq) ==
    LET d == [i \in 1..Len(a) |-> RatAbsDiff(a[i], nq)]
        mins == { i \in 1..Len(a) : \A j \in 1..Len(a) : ~RatGt(d[i], d[j]) }
    IN (CHOOSE i \in mins : \A j \in mins : j <= i) - 1

\* line 177: abs(counts - nth_quantile).argmin()
QuantileIdx(a, nq) == ArgMin([i \in 1..Len(a) |-> RatAbsDiff(a[i], nq)])

\* a scaled value that divides by the scale factor
ScaledValue_Divide(a, qidx, s) == RatMul(a[qidx + 1], <<s[2], s[1]>>)

\* line 181: counts[quantile_idx] * args.quantile_value_scale_factor
ScaledValue(a, qidx, s) == RatMul(a[qidx + 1], s)

\* line 185: np.argmax over booleans is the first True, and 0 when none is
RECURSIVE ArgMaxFrom(_, _)
ArgMaxFrom(b, i) ==
    IF i > Len(b) THEN 0
    ELSE IF b[i] THEN i - 1
    ELSE ArgMaxFrom(b, i + 1)

ArgMax(b) == ArgMaxFrom(b, 1)

\* a scan that keeps every row when no value exceeds the threshold
MaxIdx_RetainAll(a, sv) ==
    IF \E i \in 1..Len(a) : RatGt(a[i], sv)
    THEN ArgMax([i \in 1..Len(a) |-> RatGt(a[i], sv)])
    ELSE Len(a)

\* line 185: np.argmax(counts > scaled_value)
MaxIdx(a, sv) == ArgMax([i \in 1..Len(a) |-> RatGt(a[i], sv)])

\* line 190: peaks_df[:max_idx]
Prefix(df, k) == SubSeq(df, 1, k)

\* lines 195-196: the ten columns of the peak record
OutputRow(r) ==
    [chrom |-> r.chrom, st |-> r.st, e |-> r.e, name |-> r.name,
     summit |-> r.summit]

---------------------------------------------------------------------------
Init ==
    /\ pc = "read_csv"
    /\ chroms \in RequiredChroms
    /\ chrom_sizes \in ChromSizeTables
    /\ flank \in 0..MaxFlank
    /\ sources_read = 0
    /\ peaks_df = <<>>
    /\ allPeaks = <<>>
    /\ signal_files = <<>>
    /\ counts = <<>>
    /\ quantile = <<0, 1>>
    /\ nth_quantile = <<0, 1>>
    /\ quantile_idx = 0
    /\ scale_factor = <<1, 1>>
    /\ scaled_value = <<0, 1>>
    /\ max_idx = 0
    /\ output_bed = [written |-> FALSE, rows |-> <<>>]
    /\ error = NoError

\* lines 42-47: the loop takes the next peaks file and reads it
ReadCsv ==
    /\ pc = "read_csv"
    /\ sources_read < MaxSources
    /\ \E file \in PeakFiles : peaks_df' = file
    /\ sources_read' = sources_read + 1
    /\ pc' = "filter"
    /\ UNCHANGED <<chroms, chrom_sizes, flank, allPeaks, signal_files, counts,
                   quantile, nth_quantile, quantile_idx, scale_factor,
                   scaled_value, max_idx, output_bed, error>>

\* lines 51-85: the lookup succeeds for every surviving row
FilterAndAppend ==
    /\ pc = "filter"
    /\ LET windows == FilterStart(AddWindows(FilterChroms(peaks_df, chroms), flank))
       IN /\ MissingLookups(windows, chrom_sizes) = <<>>
          /\ peaks_df' = SortByChromEnd(FilterEnd(windows, chrom_sizes))
          /\ allPeaks' = allPeaks \o peaks_df'
    /\ pc' = "read_csv"
    /\ UNCHANGED <<chroms, chrom_sizes, flank, sources_read, signal_files,
                   counts, quantile, nth_quantile, quantile_idx, scale_factor,
                   scaled_value, max_idx, output_bed, error>>

\* lines 68-69: chrom_size_dict[chrom] raises KeyError for the first row
\* whose chromosome is not in the table
FilterKeyError ==
    /\ pc = "filter"
    /\ LET windows == FilterStart(AddWindows(FilterChroms(peaks_df, chroms), flank))
           missing == MissingLookups(windows, chrom_sizes)
       IN /\ missing # <<>>
          /\ peaks_df' = windows
          /\ error' = [type |-> "KeyError", arg |-> missing[1].chrom]
    /\ pc' = "failed"
    /\ UNCHANGED <<chroms, chrom_sizes, flank, sources_read, allPeaks,
                   signal_files, counts, quantile, nth_quantile, quantile_idx,
                   scale_factor, scaled_value, max_idx, output_bed>>

\* lines 89-92 and 131-133: the loop is over; duplicates are dropped and the
\* frame is returned into outliers_main's peaks_df.  allPeaks keeps the
\* concatenated table the result was computed from.
ReturnPeaks ==
    /\ pc = "read_csv"
    /\ peaks_df' = WithIndex(DropDuplicates(allPeaks))
    /\ pc' = "open_signal"
    /\ UNCHANGED <<chroms, chrom_sizes, flank, sources_read, allPeaks,
                   signal_files, counts, quantile, nth_quantile, quantile_idx,
                   scale_factor, scaled_value, max_idx, output_bed, error>>

\* lines 137-143: the next signal file exists and is opened
OpenSignal ==
    /\ pc = "open_signal"
    /\ Len(signal_files) < MaxTracks
    /\ \E f \in SignalSources :
        /\ PathExists(f)
        /\ signal_files' = Append(signal_files, f)
    /\ UNCHANGED <<pc, chroms, chrom_sizes, flank, sources_read, peaks_df,
                   allPeaks, counts, quantile, nth_quantile, quantile_idx,
                   scale_factor, scaled_value, max_idx, output_bed, error>>

\* lines 139-141: the next signal file does not exist
OpenSignalMissing ==
    /\ pc = "open_signal"
    /\ Len(signal_files) < MaxTracks
    /\ \E f \in SignalSources :
        /\ ~PathExists(f)
        /\ error' = [type |-> "NoTracebackException", arg |-> f]
    /\ pc' = "failed"
    /\ UNCHANGED <<chroms, chrom_sizes, flank, sources_read, peaks_df,
                   allPeaks, signal_files, counts, quantile, nth_quantile,
                   quantile_idx, scale_factor, scaled_value, max_idx,
                   output_bed>>

\* lines 146-164: every window is read from every track and scored
ComputeCounts ==
    /\ pc = "open_signal"
    /\ Len(signal_files) >= 1
    /\ AllQueriesValid(peaks_df, signal_files)
    /\ peaks_df' = [i \in 1..Len(peaks_df) |-> Scored(peaks_df[i], signal_files)]
    /\ pc' = "sort_values"
    /\ UNCHANGED <<chroms, chrom_sizes, flank, sources_read, allPeaks,
                   signal_files, counts, quantile, nth_quantile, quantile_idx,
                   scale_factor, scaled_value, max_idx, output_bed, error>>

\* line 158: a query raises RuntimeError
ComputeCountsError ==
    /\ pc = "open_signal"
    /\ Len(signal_files) >= 1
    /\ ~AllQueriesValid(peaks_df, signal_files)
    /\ error' = [type |-> "RuntimeError", arg |-> "Invalid interval bounds!"]
    /\ pc' = "failed"
    /\ UNCHANGED <<chroms, chrom_sizes, flank, sources_read, peaks_df,
                   allPeaks, signal_files, counts, quantile, nth_quantile,
                   quantile_idx, scale_factor, scaled_value, max_idx,
                   output_bed>>

\* lines 166-168: sort by avg_counts and take the column's values
SortValues ==
    /\ pc = "sort_values"
    /\ \E s \in SortedFrames(peaks_df) :
        /\ peaks_df' = s
        /\ counts' = [i \in 1..Len(s) |-> s[i].avg_counts]
    /\ pc' = "trim"
    /\ UNCHANGED <<chroms, chrom_sizes, flank, sources_read, allPeaks,
                   signal_files, quantile, nth_quantile, quantile_idx,
                   scale_factor, scaled_value, max_idx, output_bed, error>>

\* lines 173-190: quantile, closest index, scaled value, boundary, prefix
Trim ==
    /\ pc = "trim"
    /\ counts # <<>>
    /\ \E q \in Quantiles, s \in ScaleFactors :
        /\ QuantileValid(q)
        /\ quantile' = q
        /\ scale_factor' = s
        /\ nth_quantile' = NpQuantile(counts, q)
        /\ quantile_idx' = QuantileIdx(counts, nth_quantile')
        /\ scaled_value' = ScaledValue(counts, quantile_idx', s)
        /\ max_idx' = MaxIdx(counts, scaled_value')
        /\ peaks_df' = Prefix(peaks_df, max_idx')
    /\ pc' = "to_csv"
    /\ UNCHANGED <<chroms, chrom_sizes, flank, sources_read, allPeaks,
                   signal_files, counts, output_bed, error>>

\* line 173: np.quantile raises ValueError for q outside [0, 1]
TrimQuantileError ==
    /\ pc = "trim"
    /\ \E q \in Quantiles :
        /\ ~QuantileValid(q)
        /\ quantile' = q
    /\ error' = [type |-> "ValueError",
                 arg |-> "Quantiles must be in the range [0, 1]"]
    /\ pc' = "failed"
    /\ UNCHANGED <<chroms, chrom_sizes, flank, sources_read, peaks_df,
                   allPeaks, signal_files, counts, nth_quantile, quantile_idx,
                   scale_factor, scaled_value, max_idx, output_bed>>

\* lines 173-177: on an empty array np.quantile raises IndexError or returns
\* NaN depending on the numpy version, and argmin then raises ValueError
TrimEmptyError ==
    /\ pc = "trim"
    /\ counts = <<>>
    /\ \E q \in Quantiles :
        /\ QuantileValid(q)
        /\ quantile' = q
    /\ \E e \in { [type |-> "IndexError",
                   arg |-> "index -1 is out of bounds for axis 0 with size 0"],
                  [type |-> "ValueError",
                   arg |-> "attempt to get argmin of an empty sequence"] } :
        error' = e
    /\ pc' = "failed"
    /\ UNCHANGED <<chroms, chrom_sizes, flank, sources_read, peaks_df,
                   allPeaks, signal_files, counts, nth_quantile, quantile_idx,
                   scale_factor, scaled_value, max_idx, output_bed>>

\* lines 195-197: the surviving rows are written to args.output_bed
ToCsv ==
    /\ pc = "to_csv"
    /\ output_bed' = [written |-> TRUE,
                      rows |-> [i \in 1..Len(peaks_df) |-> OutputRow(peaks_df[i])]]
    /\ pc' = "done"
    /\ UNCHANGED <<chroms, chrom_sizes, flank, sources_read, peaks_df,
                   allPeaks, signal_files, counts, quantile, nth_quantile,
                   quantile_idx, scale_factor, scaled_value, max_idx, error>>

Next ==
    \/ ReadCsv
    \/ FilterAndAppend
    \/ FilterKeyError
    \/ ReturnPeaks
    \/ OpenSignal
    \/ OpenSignalMissing
    \/ ComputeCounts
    \/ ComputeCountsError
    \/ SortValues
    \/ Trim
    \/ TrimQuantileError
    \/ TrimEmptyError
    \/ ToCsv

Spec == Init /\ [][Next]_vars

---------------------------------------------------------------------------
(* Properties *)

Terminal == {"done", "failed"}

Trimmed == pc \in {"to_csv", "done"}

\* python positions whose avg value strictly exceeds the rational sv
Exceeding(a, sv) == { i \in 0..(Len(a) - 1) : a[i + 1][1] * sv[2] > sv[1] * a[i + 1][2] }

MinOf(S) == CHOOSE i \in S : \A j \in S : i <= j

\* C1: the trim boundary is the position of the first avg value that strictly
\* exceeds scaled_value, and 0 when none does; the result is the prefix of the
\* ascending frame before the boundary, so when nothing exceeds scaled_value
\* every peak is discarded.
C1_TrimBoundaryPrefix ==
    [][(pc = "trim" /\ pc' = "to_csv") =>
        /\ \A i \in 1..(Len(counts) - 1) :
              counts[i][1] * counts[i + 1][2] <= counts[i + 1][1] * counts[i][2]
        /\ max_idx' = IF Exceeding(counts, scaled_value') = {} THEN 0
                      ELSE MinOf(Exceeding(counts, scaled_value'))
        /\ Len(peaks_df') = max_idx'
        /\ \A i \in 1..max_idx' : peaks_df'[i] = peaks_df[i]
        /\ (Exceeding(counts, scaled_value') = {} => peaks_df' = <<>>)]_vars

C1_Witness ==
    /\ pc = "to_csv"
    /\ Len(counts) >= 2
    /\ Exceeding(counts, scaled_value) = {}
    /\ max_idx = 0
    /\ peaks_df = <<>>

\* C2 as stated: every emitted window has 0 <= start < end <= chrom size, for
\* every non-negative flank.
C2_StrictWindows ==
    \A i \in 1..Len(allPeaks) :
        /\ allPeaks[i].chrom \in DOMAIN chrom_sizes
        /\ 0 <= allPeaks[i].start
        /\ allPeaks[i].start < allPeaks[i].end
        /\ allPeaks[i].end <= chrom_sizes[allPeaks[i].chrom]

\* C2 amended: every emitted window has start = st + summit - flank,
\* end = st + summit + flank and 0 <= start <= end <= chrom size; start < end
\* holds exactly when flank > 0.
C2_WindowsInBounds ==
    \A i \in 1..Len(allPeaks) :
        /\ allPeaks[i].chrom \in DOMAIN chrom_sizes
        /\ allPeaks[i].start = allPeaks[i].st + allPeaks[i].summit - flank
        /\ allPeaks[i].end = allPeaks[i].st + allPeaks[i].summit + flank
        /\ 0 <= allPeaks[i].start
        /\ allPeaks[i].start <= allPeaks[i].end
        /\ allPeaks[i].end <= chrom_sizes[allPeaks[i].chrom]
        /\ (allPeaks[i].start < allPeaks[i].end <=> flank > 0)

C2_Witness ==
    /\ pc = "open_signal"
    /\ flank = 2
    /\ sources_read = 2
    /\ Len(allPeaks) >= 1

\* the raw rows of the frame that is about to be filtered which name a
\* required chromosome without an entry in the size table
MissingRows ==
    { i \in 1..Len(peaks_df) :
        peaks_df[i].chrom \in chroms /\ peaks_df[i].chrom \notin DOMAIN chrom_sizes }

MissingRowsInRange ==
    { i \in MissingRows : peaks_df[i].st + peaks_df[i].summit - flank >= 0 }

\* C3 as stated: whenever a peak record names a required chromosome that is
\* absent from the size table, the run ends with an error naming that
\* chromosome, the peak is not silently dropped and nothing is written.
C3_MissingChromAlwaysFails ==
    [][(pc = "filter" /\ MissingRows # {}) =>
        /\ pc' = "failed"
        /\ error'.arg = peaks_df[MinOf(MissingRows)].chrom
        /\ ~output_bed'.written]_vars

\* C3 amended: whenever a peak record whose left flank is not below 0 names a
\* required chromosome that is absent from the size table, the run ends with
\* the lookup error (KeyError) naming the chromosome of the first such record,
\* nothing is appended and nothing is written; a record whose left flank is
\* below 0 is dropped before the lookup.
C3_MissingChromInRangeFails ==
    /\ [][(pc = "filter" /\ MissingRowsInRange # {}) =>
            /\ pc' = "failed"
            /\ error'.type = "KeyError"
            /\ error'.arg = peaks_df[MinOf(MissingRowsInRange)].chrom
            /\ allPeaks' = allPeaks
            /\ ~output_bed'.written]_vars
    /\ [][(pc = "filter" /\ MissingRowsInRange = {}) => pc' = "read_csv"]_vars
    /\ [](pc = "failed" => ~output_bed.written)

C3_Witness ==
    /\ pc = "failed"
    /\ error.type = "KeyError"
    /\ error.arg \in chroms
    /\ error.arg \notin DOMAIN chrom_sizes
    /\ \E i \in 1..Len(peaks_df) : peaks_df[i].chrom = error.arg
    /\ ~output_bed.written

\* C4: when no source yields a valid window, the extractor, the aggregator
\* and the trimmer return empty sequences and the run completes without an
\* error.
C4_EmptyInputCompletes ==
    [][(pc = "trim" /\ counts = <<>>
            /\ 0 <= quantile'[1] /\ quantile'[1] <= quantile'[2]) =>
        /\ pc' = "to_csv"
        /\ peaks_df' = <<>>
        /\ error' = NoError]_vars

\* the boundary the code computes for the sorted values, the index of the
\* quantile and scale factor s
BoundaryFor(s) == MaxIdx(counts, ScaledValue(counts, quantile_idx, s))

ScaleLe(s1, s2) == s1[1] * s2[2] <= s2[1] * s1[2]

\* C5 as stated: for fixed values and quantile and 0 < s1 <= s2, the boundary
\* with s2 is at least the boundary with s1.
C5_BoundaryMonotone ==
    Trimmed =>
        \A s2 \in ScaleFactors :
            ScaleLe(scale_factor, s2) => BoundaryFor(s2) >= max_idx

\* C5 amended: for fixed values and quantile and 0 < s1 <= s2, the boundary
\* with s2 is at least the boundary with s1 provided the value at
\* quantile_idx is not negative and some value strictly exceeds that value
\* times s2; when no value exceeds it the boundary with s2 is 0.
C5_BoundaryMonotoneWhenExceeded ==
    Trimmed =>
        \A s2 \in ScaleFactors :
            LET v == counts[quantile_idx + 1]
                sv2 == <<v[1] * s2[1], v[2] * s2[2]>>
            IN /\ (ScaleLe(scale_factor, s2) /\ v[1] >= 0
                      /\ Exceeding(counts, sv2) # {})
                    => BoundaryFor(s2) >= max_idx
               /\ (Exceeding(counts, sv2) = {} => BoundaryFor(s2) = 0)

C5_Witness ==
    /\ pc = "to_csv"
    /\ max_idx > 0
    /\ counts[quantile_idx + 1][1] > 0
    /\ \E s2 \in ScaleFactors :
        /\ ScaleLe(scale_factor, s2)
        /\ BoundaryFor(s2) > max_idx

\* C6 as stated: every quantile outside the open interval (0, 1), q = 0 and
\* q = 1 included, makes the trimmer fail before anything is written.
C6_OpenIntervalRejected ==
    [][(pc = "trim" /\ ~(0 < quantile'[1] /\ quantile'[1] < quantile'[2])) =>
        /\ pc' = "failed"
        /\ ~output_bed'.written]_vars

\* C6 amended: every quantile outside the closed interval [0, 1] makes the
\* trimmer fail with the quantile's range error (ValueError) before anything
\* is written; q = 0 and q = 1 are accepted.
C6_ClosedIntervalRejected ==
    /\ [][(pc = "trim" /\ ~(0 <= quantile'[1] /\ quantile'[1] <= quantile'[2])) =>
            /\ pc' = "failed"
            /\ error'.type = "ValueError"
            /\ ~output_bed'.written]_vars
    /\ [][(pc = "trim" /\ counts # <<>>
            /\ 0 <= quantile'[1] /\ quantile'[1] <= quantile'[2]) =>
            pc' = "to_csv"]_vars
    /\ [](pc = "failed" => ~output_bed.written)

C6_Witness ==
    /\ pc = "failed"
    /\ quantile[1] > quantile[2]
    /\ counts # <<>>
    /\ error.type = "ValueError"
    /\ ~output_bed.written

\* C7: every signal handle the run opened is released when the run ends, on
\* every exit path.  No statement of outliers_main closes a handle, so the
\* handles in signal_files are the open ones.
C7_HandlesReleased == pc \in Terminal => signal_files = <<>>

StripIndex(r) ==
    [chrom |-> r.chrom, st |-> r.st, e |-> r.e, start |-> r.start,
     end |-> r.end, name |-> r.name, summit |-> r.summit]

FirstPos(df, r) == MinOf({ k \in 1..Len(df) : df[k] = r })

\* C8: the frame getPeakPositions returns holds exactly the first occurrences
\* of the rows of the concatenated table: no two returned rows are equal,
\* every row of the table is returned, the first occurrences keep their
\* relative order, and dropping duplicates again changes nothing.
C8_FirstOccurrences ==
    pc = "open_signal" =>
        LET res == [i \in 1..Len(peaks_df) |-> StripIndex(peaks_df[i])]
        IN /\ \A i, j \in 1..Len(res) : i # j => res[i] # res[j]
           /\ { res[i] : i \in 1..Len(res) }
                = { allPeaks[k] : k \in 1..Len(allPeaks) }
           /\ \A i, j \in 1..Len(res) :
                i < j => FirstPos(allPeaks, res[i]) < FirstPos(allPeaks, res[j])
           /\ \A i \in 1..Len(res) : peaks_df[i].index = i - 1
           /\ DropDuplicates(res) = res

C8_Witness ==
    /\ pc = "open_signal"
    /\ Len(peaks_df) >= 2
    /\ Len(allPeaks) > Len(peaks_df)
    /\ allPeaks[1] = allPeaks[Len(allPeaks)]

\* C9: the sort by avg value is stable: of two peaks with equal avg value the
\* one that came first in the aggregator's output comes first after the sort.
C9_StableSort ==
    pc = "trim" =>
        \A i, j \in 1..Len(peaks_df) :
            (i < j /\ RatEq(peaks_df[i].avg_counts, peaks_df[j].avg_counts))
                => peaks_df[i].index < peaks_df[j].index

\* |counts[i] - nth_quantile| as a rational, for python position i
Distance(i) ==
    LET a == counts[i + 1]
        d == a[1] * nth_quantile[2] - nth_quantile[1] * a[2]
    IN <<IF d < 0 THEN 0 - d ELSE d, a[2] * nth_quantile[2]>>

RatLt(a, b) == a[1] * b[2] < b[1] * a[2]

\* C10: quantile_idx is the lowest position among the values closest to the
\* quantile value, scaled_value is the value at quantile_idx times s, and
\* when all values equal v the quantile value is v, scaled_value is v * s and
\* for v > 0 and s <= 1 the boundary is 0.
C10_ClosestLowestIndex ==
    Trimmed =>
        /\ quantile_idx \in 0..(Len(counts) - 1)
        /\ \A j \in 0..(Len(counts) - 1) :
            /\ ~RatLt(Distance(j), Distance(quantile_idx))
            /\ (j < quantile_idx => RatLt(Distance(quantile_idx), Distance(j)))
        /\ scaled_value[1] * (counts[quantile_idx + 1][2] * scale_factor[2])
            = (counts[quantile_idx + 1][1] * scale_factor[1]) * scaled_value[2]
        /\ (\A i \in 1..Len(counts) : RatEq(counts[i], counts[1])) =>
            /\ RatEq(nth_quantile, counts[1])
            /\ RatEq(scaled_value, RatMul(counts[1], scale_factor))
            /\ (counts[1][1] > 0 /\ scale_factor[1] <= scale_factor[2])
                    => max_idx = 0

C10_Witness ==
    /\ pc = "to_csv"
    /\ Len(counts) >= 2
    /\ \E j \in 0..(Len(counts) - 1) :
        /\ j > quantile_idx
        /\ RatEq(Distance(j), Distance(quantile_idx))
        /\ ~RatEq(counts[j + 1], counts[quantile_idx + 1])

=============================================================================
